---- MODULE Spec2Model ----
(***************************************************************************)
(* RFX response generator (rfx_generator_streamlit_final.py).              *)
(*                                                                         *)
(* Spec     : the three-step wizard held in st.session_state together with *)
(*            the section orchestrator (generate_all_sections) and its     *)
(*            ThreadPoolExecutor.                                          *)
(* SpecText : the markdown-to-document pipeline (clean_markdown_text,      *)
(*            parse_markdown_table, add_formatted_content) applied to      *)
(*            bounded content strings.                                     *)
(*                                                                         *)
(* Text is a sequence of one-character strings; "\n" is the line feed and  *)
(* the literal '[TABLE_PLACEHOLDER]' is a sequence of its characters.      *)
(***************************************************************************)
EXTENDS Integers, Sequences, FiniteSets, TLC

(***************************************************************************)
(* Bounds.  The orchestrator is checked on a prefix of the ten section     *)
(* definitions and a proportionally smaller worker pool: NumSections and   *)
(* MaxWorkers stand for len(SECTIONS) = 10 and max_workers = 5, with       *)
(* NumSections > MaxWorkers so that the pool limit binds.                  *)
(***************************************************************************)
NumSections == 3
MaxWorkers == 2

(***************************************************************************)
(* Python dicts are functions; {} is the empty function.                   *)
(***************************************************************************)
EmptyDict == <<>>

Keys(d) == IF d = EmptyDict THEN {} ELSE DOMAIN d

\* dict.get(key, default)
Get(d, k, default) == IF k \in Keys(d) THEN d[k] ELSE default

\* d[key] = value
Put(d, k, v) == [x \in Keys(d) \cup {k} |-> IF x = k THEN v ELSE d[x]]

(***************************************************************************)
(* SECTIONS (lines 28-39), in their fixed order.                           *)
(***************************************************************************)
AllSections ==
  << [key |-> "executive_summary",           label |-> "Executive summary"],
     [key |-> "implementation_architecture", label |-> "Implementation architecture"],
     [key |-> "team_members",                label |-> "Team composition"],
     [key |-> "cost_estimate",               label |-> "Cost estimate"],
     [key |-> "execution_plan",              label |-> "Execution plan"],
     [key |-> "timeline",                    label |-> "Timeline and Milestones"],
     [key |-> "risks",                       label |-> "Risk assessment"],
     [key |-> "assumptions",                 label |-> "Assumptions and Dependencies"],
     [key |-> "deliverables",                label |-> "Deliverables"],
     [key |-> "conclusion",                  label |-> "Conclusion"] >>

SECTIONS == SubSeq(AllSections, 1, NumSections)

\* positions of the section definitions; a future is named by the position
\* of the section it was submitted for
Idx == 1..Len(SECTIONS)

SectionKeys == {SECTIONS[i].key : i \in Idx}

(***************************************************************************)
(* The intake form of step 1 and the record stored from it.                *)
(***************************************************************************)
ClientNames == {"", "Acme Corp", "Globex"}
ProjectTitles == {"", "Portal"}
ProjectTypes == {"", "Cloud Migration"}
Descriptions == {"", "Move to cloud"}
OptionalTexts == {""}

Forms ==
  [client_name : ClientNames, project_title : ProjectTitles,
   project_type : ProjectTypes, budget : OptionalTexts,
   timeline : OptionalTexts, description : Descriptions,
   requirements : OptionalTexts, constraints : OptionalTexts]

\* a check that forgets the description
FormCompleteNoDescription(f) ==
  /\ f.client_name # ""
  /\ f.project_title # ""
  /\ f.project_type # ""

\* line 483: client_name and project_title and project_type and description
FormComplete(f) ==
  /\ f.client_name # ""
  /\ f.project_title # ""
  /\ f.project_type # ""
  /\ f.description # ""

(***************************************************************************)
(* Section text.  What the text-generation service returns is opaque: it   *)
(* is identified by the section and the intake record of the prompt.       *)
(***************************************************************************)
Content(kind, key, from) == [kind |-> kind, key |-> key, from |-> from]

\* the '' default of the step 3 text areas
EmptyText == Content("empty", "", EmptyDict)

\* the literal 'Content not generated' of create_docx_document
NotGenerated == Content("not_generated", "", EmptyDict)

\* a future that holds no outcome yet
NoOutcome == [raised |-> FALSE, value |-> Content("none", "", EmptyDict)]

ApiOutcomes == {"ok", "raise"}

\* the two error placeholders: line 220 and line 253
ErrGenerating == "Error generating section: e"
ErrCollecting == "Error: e"

\* generate_section (lines 186-220): the prompt is built from the section
\* and the intake record; an exception of the call is caught and returned
\* as the string "Error generating section: ..."
generate_section(key, label, rfx, api) ==
  IF api = "ok"
    THEN [raised |-> FALSE, value |-> Content("text", key, rfx)]
    ELSE [raised |-> FALSE, value |-> Content(ErrGenerating, key, rfx)]

VARIABLES
  step,                \* st.session_state.step
  rfx_data,            \* st.session_state.rfx_data
  generated_sections,  \* st.session_state.generated_sections
  libreoffice,         \* LIBREOFFICE_AVAILABLE
  pc,                  \* position of the script run inside the generate handler
  fstate,              \* state of each future of the executor
  foutcome,            \* outcome held by each finished future
  apicall,             \* what the generation call of each section did
  collected,           \* futures as_completed has yielded
  sections_content,    \* the local results mapping of generate_all_sections
  writes,              \* writes to the results mapping in this batch
  doc,                 \* the document this script run offers for download
  last,                \* the last handler that ran and how it ended
  content,             \* the content string handed to the text pipeline
  tables,              \* result of parse_markdown_table(content)
  blocks,              \* what add_formatted_content(doc, content) added to doc
  raised,              \* add_formatted_content ended with an exception
  cleaned,             \* result of clean_markdown_text(content)
  recleaned,           \* result of clean_markdown_text(cleaned)
  tstage               \* which of the text functions have run

wizvars == <<step, rfx_data, generated_sections, libreoffice, pc, fstate,
             foutcome, apicall, collected, sections_content, writes, doc, last>>
textvars == <<content, tables, blocks, raised, cleaned, recleaned, tstage>>
vars == <<wizvars, textvars>>

(***************************************************************************)
(* Strings: sequences of one-character strings, with the str methods the   *)
(* text functions use.                                                     *)
(***************************************************************************)
NL == "\n"

\* whitespace as str.strip() and the regex class \s see it
IsSpace(c) == c \in {" ", NL}

RECURSIVE LStrip(_)
LStrip(s) == IF s # <<>> /\ IsSpace(Head(s)) THEN LStrip(Tail(s)) ELSE s

RECURSIVE RStrip(_)
RStrip(s) ==
  IF s # <<>> /\ IsSpace(s[Len(s)]) THEN RStrip(SubSeq(s, 1, Len(s) - 1)) ELSE s

\* str.strip()
Strip(s) == RStrip(LStrip(s))

\* sub occurs in s at position i
At(s, sub, i) ==
  /\ i >= 1
  /\ i + Len(sub) - 1 <= Len(s)
  /\ SubSeq(s, i, i + Len(sub) - 1) = sub

\* str.find(sub, from), one-based; 0 when there is none
RECURSIVE Find(_, _, _)
Find(s, sub, from) ==
  IF from + Len(sub) - 1 > Len(s) THEN 0
  ELSE IF At(s, sub, from) THEN from
  ELSE Find(s, sub, from + 1)

\* sub in s
Contains(s, sub) == Find(s, sub, 1) # 0

\* str.split(sep)
RECURSIVE Split(_, _)
Split(s, sep) ==
  LET i == Find(s, sep, 1)
  IN IF i = 0 THEN <<s>>
     ELSE <<SubSeq(s, 1, i - 1)>> \o Split(SubSeq(s, i + Len(sep), Len(s)), sep)

\* str.count(c) for a character c
Count(s, c) == Cardinality({i \in 1..Len(s) : s[i] = c})

\* str.startswith(prefix)
StartsWith(s, prefix) == At(s, prefix, 1)

\* str.replace(old, new)
RECURSIVE Replace(_, _, _)
Replace(s, old, new) ==
  LET i == Find(s, old, 1)
  IN IF i = 0 THEN s
     ELSE SubSeq(s, 1, i - 1) \o new
            \o Replace(SubSeq(s, i + Len(old), Len(s)), old, new)

(***************************************************************************)
(* clean_markdown_text (lines 41-56)                                       *)
(***************************************************************************)
\* re.sub(d(.+?)d, \1, s) from position i on, for a literal delimiter d:
\* the lazy group ends at the first d that follows at least one character,
\* and no character of the group is a line feed
RECURSIVE SubSpan(_, _, _)
SubSpan(s, d, i) ==
  IF i > Len(s) THEN <<>>
  ELSE LET n == Len(d)
           j == IF At(s, d, i) THEN Find(s, d, i + n + 1) ELSE 0
       IN IF j # 0 /\ \A m \in (i + n)..(j - 1) : s[m] # NL
            THEN SubSeq(s, i + n, j - 1) \o SubSpan(s, d, j + n)
            ELSE <<s[i]>> \o SubSpan(s, d, i + 1)

\* length of the run of characters of class from position i on
RECURSIVE RunLen(_, _, _)
RunLen(s, class, i) ==
  IF i <= Len(s) /\ s[i] \in class THEN 1 + RunLen(s, class, i + 1) ELSE 0

\* re.sub(r'^#{1,6}\s+', '', s, flags=re.MULTILINE) from position i on
RECURSIVE SubHeaders(_, _)
SubHeaders(s, i) ==
  IF i > Len(s) THEN <<>>
  ELSE LET h == RunLen(s, {"#"}, i)
           w == RunLen(s, {" ", NL}, i + h)
       IN IF (i = 1 \/ s[i - 1] = NL) /\ h >= 1 /\ h <= 6 /\ w >= 1
            THEN SubHeaders(s, i + h + w)
            ELSE <<s[i]>> \o SubHeaders(s, i + 1)

\* re.sub(r'\*+', '', s)
RemoveStars(s) == SelectSeq(s, LAMBDA c : c # "*")

clean_markdown_text(text) ==
  LET t1 == SubSpan(text, <<"*", "*", "*">>, 1)
      t2 == SubSpan(t1, <<"*", "*">>, 1)
      t3 == SubSpan(t2, <<"*">>, 1)
      t4 == SubSpan(t3, <<"_", "_">>, 1)
      t5 == SubSpan(t4, <<"_">>, 1)
      t6 == SubHeaders(t5, 1)
      t7 == RemoveStars(t6)
  IN Strip(t7)

(***************************************************************************)
(* parse_markdown_table (lines 58-82)                                      *)
(***************************************************************************)
\* re.match(r'^\|[\s\-:]+\|', row): a pipe, one or more of whitespace, dash
\* and colon, a pipe; anything may follow
SeparatorRow(row) ==
  /\ Len(row) >= 3
  /\ row[1] = "|"
  /\ \E j \in 3..Len(row) :
       /\ row[j] = "|"
       /\ \A m \in 2..(j - 1) : row[m] \in {" ", NL, "-", ":"}

\* line 73: [cell.strip() for cell in row.split('|') if cell.strip()]
RowCells(row) ==
  LET parts == Split(row, <<"|">>)
  IN SelectSeq([k \in 1..Len(parts) |-> Strip(parts[k])], LAMBDA c : c # <<>>)

\* lines 70-76: rows are collected from line i on while the line has a pipe
RECURSIVE CollectRows(_, _, _)
CollectRows(lines, i, table_rows) ==
  IF i <= Len(lines) /\ Contains(lines[i], <<"|">>)
    THEN LET row == Strip(lines[i])
             cells == RowCells(row)
         IN CollectRows(lines, i + 1,
              IF row # <<>> /\ ~SeparatorRow(row) /\ cells # <<>>
                THEN Append(table_rows, cells) ELSE table_rows)
    ELSE [rows |-> table_rows, next |-> i]

\* line 67: the stripped line has at least two pipes
LooksLikeTableRow(line) == Count(Strip(line), "|") >= 2

\* lines 64-80
RECURSIVE ScanLines(_, _, _)
ScanLines(lines, i, found) ==
  IF i > Len(lines) THEN found
  ELSE IF LooksLikeTableRow(lines[i])
    THEN LET r == CollectRows(lines, i, <<>>)
         IN ScanLines(lines, r.next,
                      IF r.rows # <<>> THEN Append(found, r.rows) ELSE found)
    ELSE ScanLines(lines, i + 1, found)

parse_markdown_table(text) == ScanLines(Split(text, <<NL>>), 1, <<>>)

(***************************************************************************)
(* add_table_to_doc (lines 84-115)                                         *)
(***************************************************************************)
Block(type, text, rows) == [type |-> type, text |-> text, rows |-> rows]

\* the first row with more cells than the table has columns: row.cells[j]
\* raises IndexError there (0 when there is none)
FirstLongRow(table_data) ==
  LET cols == Len(table_data[1])
      long == {r \in 1..Len(table_data) : Len(table_data[r]) > cols}
  IN IF long = {} THEN 0 ELSE CHOOSE r \in long : \A q \in long : r <= q

\* the cell texts of the table that was added: rows x cols of the first
\* row, filled row by row until the loop ends or raises
TableGrid(table_data) ==
  LET cols == Len(table_data[1])
      bad == FirstLongRow(table_data)
  IN [r \in 1..Len(table_data) |->
        [c \in 1..cols |->
           IF (bad = 0 \/ r <= bad) /\ c <= Len(table_data[r])
             THEN clean_markdown_text(table_data[r][c])
             ELSE <<>>]]


(***************************************************************************)
(* add_formatted_content (lines 117-168)                                   *)
(***************************************************************************)
\* '[TABLE_PLACEHOLDER]'
PLACEHOLDER ==
  << "[", "T", "A", "B", "L", "E", "_", "P", "L", "A", "C", "E", "H", "O",
     "L", "D", "E", "R", "]" >>

\* the last character of the line that holds position i
RECURSIVE LineEnd(_, _)
LineEnd(s, i) ==
  IF i >= Len(s) \/ s[i + 1] = NL THEN i ELSE LineEnd(s, i + 1)

\* the last pipe among the positions from..to; 0 when there is none
LastPipe(s, from, to) ==
  LET ps == {j \in from..to : s[j] = "|"}
  IN IF ps = {} THEN 0 ELSE CHOOSE j \in ps : \A q \in ps : q <= j

\* (\n\|[^\n]+\|)+ after the pipe at p, greedy: each iteration takes a line
\* that starts with a pipe, up to the last pipe of that line, with at least
\* one character between the two.  The end of the last iteration; p when
\* there is none.
RECURSIVE TableMatchEnd(_, _)
TableMatchEnd(s, p) ==
  IF p + 2 <= Len(s) /\ s[p + 1] = NL /\ s[p + 2] = "|"
    THEN LET q == LastPipe(s, p + 2, LineEnd(s, p + 2))
         IN IF q >= p + 4 THEN TableMatchEnd(s, q) ELSE p
    ELSE p

\* table_pattern (line 126) matched at position i: the end of the match, 0
\* when it does not match.  The first line runs from a pipe at i to a pipe
\* that ends the line, and at least one more line follows.
TableMatchAt(s, i) ==
  IF s[i] # "|" THEN 0
  ELSE LET e == LineEnd(s, i)
       IN IF s[e] = "|" /\ e >= i + 2 /\ TableMatchEnd(s, e) > e
            THEN TableMatchEnd(s, e) ELSE 0

\* re.sub(table_pattern, '[TABLE_PLACEHOLDER]', s, count=1)
SubTableOnce(s) ==
  LET starts == {i \in 1..Len(s) : TableMatchAt(s, i) # 0}
  IN IF starts = {} THEN s
     ELSE LET i == CHOOSE k \in starts : \A q \in starts : k <= q
          IN SubSeq(s, 1, i - 1) \o PLACEHOLDER
               \o SubSeq(s, TableMatchAt(s, i) + 1, Len(s))

\* lines 123-127: one substitution for each extracted table
RECURSIVE RemoveTables(_, _)
RemoveTables(s, n) == IF n = 0 THEN s ELSE RemoveTables(SubTableOnce(s), n - 1)

\* add_table_to_doc: what it adds to the document and whether it raised
add_table_to_doc(table_data) ==
  IF table_data = <<>>
    THEN [added |-> <<>>, raised |-> FALSE]
    ELSE [added |-> <<Block("Table", <<>>, TableGrid(table_data))>>,
          raised |-> FirstLongRow(table_data) # 0]

\* lines 148-168 for the cleaned text of a paragraph
FormatParagraph(para_text) ==
  IF StartsWith(para_text, <<"#", "#", "#">>)
    THEN Block("Heading3", Strip(Replace(para_text, <<"#", "#", "#">>, <<>>)), <<>>)
  ELSE IF StartsWith(para_text, <<"#", "#">>)
    THEN Block("Heading2", Strip(Replace(para_text, <<"#", "#">>, <<>>)), <<>>)
  ELSE Block("Paragraph", para_text, <<>>)

\* doc.add_paragraph() after a table (line 141)
SpaceAfterTable == Block("Space", <<>>, <<>>)

\* lines 132-168: the loop over the paragraphs, from paragraph p on, with
\* table_index tables consumed and out added to the document so far
RECURSIVE AddParagraphs(_, _, _, _, _)
AddParagraphs(paragraphs, p, found, table_index, out) ==
  IF p > Len(paragraphs) THEN [blocks |-> out, raised |-> FALSE]
  ELSE IF Strip(paragraphs[p]) = <<>>
    THEN AddParagraphs(paragraphs, p + 1, found, table_index, out)
  ELSE IF Contains(paragraphs[p], PLACEHOLDER)
    THEN IF table_index < Len(found)
           THEN LET t == add_table_to_doc(found[table_index + 1])
                IN IF t.raised
                     THEN [blocks |-> out \o t.added, raised |-> TRUE]
                     ELSE AddParagraphs(paragraphs, p + 1, found, table_index + 1,
                                        out \o t.added \o <<SpaceAfterTable>>)
           ELSE AddParagraphs(paragraphs, p + 1, found, table_index, out)
  ELSE AddParagraphs(paragraphs, p + 1, found, table_index,
                     Append(out, FormatParagraph(clean_markdown_text(paragraphs[p]))))

add_formatted_content(text) ==
  LET found == parse_markdown_table(text)
      text_without_tables == RemoveTables(text, Len(found))
      paragraphs == Split(text_without_tables, <<NL, NL>>)
  IN AddParagraphs(paragraphs, 1, found, 0, <<>>)

(***************************************************************************)
(* Spec: the wizard and the orchestrator.                                  *)
(***************************************************************************)
NoDoc == [info |-> <<>>, body |-> <<>>]

Event(op, ok) == [op |-> op, ok |-> ok]

NoFutures == [i \in Idx |-> "none"]
NoOutcomes == [i \in Idx |-> NoOutcome]
NoCalls == [i \in Idx |-> "none"]
NoWrites == [k \in SectionKeys |-> <<>>]

\* lines 19-25 and 408
WizInit ==
  /\ step = 1
  /\ rfx_data = EmptyDict
  /\ generated_sections = EmptyDict
  /\ libreoffice \in BOOLEAN
  /\ pc = "idle"
  /\ fstate = NoFutures
  /\ foutcome = NoOutcomes
  /\ apicall = NoCalls
  /\ collected = {}
  /\ sections_content = EmptyDict
  /\ writes = NoWrites
  /\ doc = NoDoc
  /\ last = Event("start", TRUE)

TextIdle ==
  /\ content = <<>>
  /\ tables = <<>>
  /\ blocks = <<>>
  /\ raised = FALSE
  /\ cleaned = <<>>
  /\ recleaned = <<>>
  /\ tstage = "off"

Init == WizInit /\ TextIdle

batchvars == <<fstate, foutcome, apicall, collected, sections_content, writes>>

InFlight == {i \in Idx : fstate[i] = "running"}
Queued == {i \in Idx : fstate[i] = "pending"}

\* a continue button that goes straight to the review when sections exist
ContinueSkipsGeneration(form) ==
  /\ step = 1 /\ pc = "idle"
  /\ IF FormComplete(form)
       THEN /\ rfx_data' = form
            /\ step' = IF generated_sections # EmptyDict THEN 3 ELSE 2
            /\ last' = Event("continue", TRUE)
       ELSE /\ UNCHANGED <<rfx_data, step>>
            /\ last' = Event("continue", FALSE)
  /\ doc' = NoDoc
  /\ UNCHANGED <<generated_sections, libreoffice, pc, batchvars>>

\* ---- step 1 (lines 482-497) ----
ContinueToGeneration(form) ==
  /\ step = 1 /\ pc = "idle"
  /\ IF FormComplete(form)
       THEN /\ rfx_data' = form
            /\ step' = 2
            /\ last' = Event("continue", TRUE)
       ELSE /\ UNCHANGED <<rfx_data, step>>
            /\ last' = Event("continue", FALSE)
  /\ doc' = NoDoc
  /\ UNCHANGED <<generated_sections, libreoffice, pc, batchvars>>

\* ---- step 2 (lines 523-525) ----
BackToInfo ==
  /\ step = 2 /\ pc = "idle"
  /\ step' = 1
  /\ last' = Event("back", TRUE)
  /\ doc' = NoDoc
  /\ UNCHANGED <<rfx_data, generated_sections, libreoffice, pc, batchvars>>

\* line 539 raises: anthropic.Anthropic(api_key=...) fails, handled at 545-546
GenerateClientRaise ==
  /\ step = 2 /\ pc = "idle"
  /\ last' = Event("generate", FALSE)
  /\ doc' = NoDoc
  /\ UNCHANGED <<step, rfx_data, generated_sections, libreoffice, pc, batchvars>>

\* lines 227-240 with n = Len(SECTIONS): every section is submitted by the
\* dict comprehension; with n smaller, executor.submit raised at future n+1
Submit(n) ==
  /\ step = 2 /\ pc = "idle"
  /\ fstate' = [i \in Idx |-> IF i <= n THEN "pending" ELSE "none"]
  /\ foutcome' = NoOutcomes
  /\ apicall' = NoCalls
  /\ collected' = {}
  /\ sections_content' = EmptyDict
  /\ writes' = NoWrites
  /\ pc' = IF n = Len(SECTIONS) THEN "collect" ELSE "unwind"
  /\ last' = Event("submit", n = Len(SECTIONS))
  /\ doc' = NoDoc
  /\ UNCHANGED <<step, rfx_data, generated_sections, libreoffice>>

GenerateSubmitAll == Submit(Len(SECTIONS))

GenerateSubmitRaise == \E n \in 0..(Len(SECTIONS) - 1) : Submit(n)

\* a pool that starts a thread for every work item
WorkerAlwaysAvailable == TRUE

\* a worker thread of the pool may take a work item (ThreadPoolExecutor,
\* max_workers at line 232)
WorkerAvailable == Cardinality(InFlight) < MaxWorkers

\* a worker takes the oldest queued work item and enters generate_section
WorkerStart(i) ==
  /\ fstate[i] = "pending"
  /\ \A j \in Queued : i <= j
  /\ WorkerAvailable
  /\ fstate' = [fstate EXCEPT ![i] = "running"]
  /\ UNCHANGED <<step, rfx_data, generated_sections, libreoffice, pc, foutcome,
                 apicall, collected, sections_content, writes, doc, last>>

\* a task that stores its own result into the results mapping
WorkerFinishStores(i, api) ==
  /\ fstate[i] = "running"
  /\ apicall' = [apicall EXCEPT ![i] = api]
  /\ foutcome' = [foutcome EXCEPT
       ![i] = generate_section(SECTIONS[i].key, SECTIONS[i].label, rfx_data, api)]
  /\ fstate' = [fstate EXCEPT ![i] = "done"]
  /\ sections_content' = Put(sections_content, SECTIONS[i].key, foutcome'[i].value)
  /\ writes' = [writes EXCEPT ![SECTIONS[i].key] =
                  Append(@, [by |-> "task", future |-> i])]
  /\ UNCHANGED <<step, rfx_data, generated_sections, libreoffice, pc,
                 collected, doc, last>>

\* the call of lines 213-217 returns or raises; generate_section ends and
\* the future holds its outcome
WorkerFinish(i, api) ==
  /\ fstate[i] = "running"
  /\ apicall' = [apicall EXCEPT ![i] = api]
  /\ foutcome' = [foutcome EXCEPT
       ![i] = generate_section(SECTIONS[i].key, SECTIONS[i].label, rfx_data, api)]
  /\ fstate' = [fstate EXCEPT ![i] = "done"]
  /\ UNCHANGED <<step, rfx_data, generated_sections, libreoffice, pc,
                 collected, sections_content, writes, doc, last>>

\* a mapping that binds every future to the last section
future_to_last_section(i) == SECTIONS[Len(SECTIONS)]

\* future_to_section[future] (line 244)
future_to_section(i) == SECTIONS[i]

\* lines 245-255: the body of the as_completed loop for one yielded future
CollectWrite(sc, i) ==
  IF foutcome[i].raised
    THEN Put(sc, future_to_section(i).key,
             Content(ErrCollecting, future_to_section(i).key, rfx_data))
    ELSE Put(sc, future_to_section(i).key, foutcome[i].value)

\* as_completed yields a finished future not yet yielded (line 243)
Collect(i) ==
  /\ pc = "collect"
  /\ fstate[i] = "done"
  /\ i \notin collected
  /\ collected' = collected \cup {i}
  /\ sections_content' = CollectWrite(sections_content, i)
  /\ writes' = [writes EXCEPT ![future_to_section(i).key] =
                  Append(@, [by |-> "calling flow", future |-> i])]
  /\ UNCHANGED <<step, rfx_data, generated_sections, libreoffice, pc, fstate,
                 foutcome, apicall, doc, last>>

\* a loop that stops at the first yielded future
FirstCompleted == collected # {}

\* the as_completed iterator is exhausted: every submitted future was yielded
AsCompletedExhausted == collected = {i \in Idx : fstate[i] # "none"}

\* shutdown(wait=False)
ShutdownNoWait == TRUE

\* leaving the with block (line 232): shutdown(wait=True)
ShutdownComplete == \A i \in Idx : fstate[i] \notin {"pending", "running"}

\* lines 257-258 and 541-544
GenerateReturn ==
  /\ pc = "collect"
  /\ AsCompletedExhausted
  /\ ShutdownComplete
  /\ generated_sections' = sections_content
  /\ step' = 3
  /\ pc' = "idle"
  /\ last' = Event("generate", TRUE)
  /\ foutcome' = NoOutcomes
  /\ apicall' = NoCalls
  /\ collected' = {}
  /\ sections_content' = EmptyDict
  /\ writes' = NoWrites
  /\ UNCHANGED <<rfx_data, libreoffice, fstate, doc>>

\* the exception leaves the with block and reaches lines 545-546
GenerateExcept ==
  /\ pc = "unwind"
  /\ ShutdownComplete
  /\ pc' = "idle"
  /\ last' = Event("generate", FALSE)
  /\ foutcome' = NoOutcomes
  /\ apicall' = NoCalls
  /\ collected' = {}
  /\ sections_content' = EmptyDict
  /\ writes' = NoWrites
  /\ UNCHANGED <<step, rfx_data, generated_sections, libreoffice, fstate, doc>>

\* ---- step 3 ----
\* what the user typed over a section text
Edited(v) == [v EXCEPT !.kind = "edited"]

\* text areas that start empty instead of showing the stored text
EditLoopBlank(gs, typed) ==
  [k \in Keys(gs) \cup SectionKeys |->
     IF k \in SectionKeys
       THEN IF k \in typed THEN Edited(Get(gs, k, EmptyText)) ELSE EmptyText
       ELSE gs[k]]

\* lines 555-563, run by every script run at step 3: each text area shows
\* the stored text (or what the user typed into it) and is stored back
EditLoop(gs, typed) ==
  [k \in Keys(gs) \cup SectionKeys |->
     IF k \in SectionKeys
       THEN IF k \in typed THEN Edited(Get(gs, k, EmptyText))
                           ELSE Get(gs, k, EmptyText)
       ELSE gs[k]]

EditSection(k) ==
  /\ step = 3 /\ pc = "idle"
  /\ generated_sections' = EditLoop(generated_sections, {k})
  /\ last' = Event("edit", TRUE)
  /\ doc' = NoDoc
  /\ UNCHANGED <<step, rfx_data, libreoffice, pc, batchvars>>

\* an element of the document body: a level-1 heading (styled with the
\* fixed colour and size or not), the blocks add_formatted_content adds for
\* a content, a spacing paragraph or a page break
Element(type, text, styled, of) ==
  [type |-> type, text |-> text, styled |-> styled, of |-> of]

\* lines 327-343 for one section: the heading, the content, a space
SectionElements(section, gs) ==
  << Element("Heading1", section.label, TRUE, EmptyText),
     Element("Content", "", FALSE, Get(gs, section.key, NotGenerated)),
     Element("Space", "", FALSE, EmptyText) >>

\* a loop that walks the section definitions backwards
RECURSIVE AddSectionsReversed(_, _)
AddSectionsReversed(gs, i) ==
  IF i > Len(SECTIONS) THEN <<>>
  ELSE AddSectionsReversed(gs, i + 1) \o SectionElements(SECTIONS[i], gs)

\* lines 327-343: for section in SECTIONS, from section i on
RECURSIVE AddSections(_, _)
AddSections(gs, i) ==
  IF i > Len(SECTIONS) THEN <<>>
  ELSE SectionElements(SECTIONS[i], gs) \o AddSections(gs, i + 1)

\* lines 345-348: the page break and the heading of the contact footer
Footer ==
  << Element("PageBreak", "", FALSE, EmptyText),
     Element("Heading1", "Contact Information", FALSE, EmptyText) >>

\* a renderer that emits the sections last to first
create_docx_reversed(rfx, gs) ==
  [info |-> << Get(rfx, "client_name", "N/A"), Get(rfx, "project_title", "N/A"),
               Get(rfx, "project_type", "N/A") >>,
   body |-> AddSectionsReversed(gs, 1) \o Footer]

\* create_docx_document (lines 260-362): the intake summary table, for each
\* section in order its heading and its content, and the footer
create_docx_document(rfx, gs) ==
  [info |-> << Get(rfx, "client_name", "N/A"), Get(rfx, "project_title", "N/A"),
               Get(rfx, "project_type", "N/A") >>,
   body |-> AddSections(gs, 1) \o Footer]

\* lines 581-596; saved = FALSE: create_docx_document raised
ExportDocx(saved) ==
  /\ step = 3 /\ pc = "idle"
  /\ generated_sections' = EditLoop(generated_sections, {})
  /\ doc' = IF saved THEN create_docx_document(rfx_data, generated_sections')
                     ELSE NoDoc
  /\ last' = Event("export_docx", saved)
  /\ UNCHANGED <<step, rfx_data, libreoffice, pc, batchvars>>

\* lines 601-624; converted = FALSE: convert_docx_to_pdf returned None
ExportPdf(saved, converted) ==
  /\ step = 3 /\ pc = "idle"
  /\ libreoffice
  /\ generated_sections' = EditLoop(generated_sections, {})
  /\ doc' = IF saved THEN create_docx_document(rfx_data, generated_sections')
                     ELSE NoDoc
  /\ last' = Event("export_pdf", saved /\ converted)
  /\ UNCHANGED <<step, rfx_data, libreoffice, pc, batchvars>>

\* lines 627-661: a failed conversion only hides the PDF download
ExportBoth(saved, converted) ==
  /\ step = 3 /\ pc = "idle"
  /\ libreoffice
  /\ generated_sections' = EditLoop(generated_sections, {})
  /\ doc' = IF saved THEN create_docx_document(rfx_data, generated_sections')
                     ELSE NoDoc
  /\ last' = Event("export_both", saved)
  /\ UNCHANGED <<step, rfx_data, libreoffice, pc, batchvars>>

\* lines 691-693
BackToGenerate ==
  /\ step = 3 /\ pc = "idle"
  /\ generated_sections' = EditLoop(generated_sections, {})
  /\ step' = 2
  /\ last' = Event("back", TRUE)
  /\ doc' = NoDoc
  /\ UNCHANGED <<rfx_data, libreoffice, pc, batchvars>>

Next ==
  \/ (\E form \in Forms : ContinueToGeneration(form)) /\ UNCHANGED textvars
  \/ BackToInfo /\ UNCHANGED textvars
  \/ GenerateClientRaise /\ UNCHANGED textvars
  \/ GenerateSubmitAll /\ UNCHANGED textvars
  \/ GenerateSubmitRaise /\ UNCHANGED textvars
  \/ (\E i \in Idx : WorkerStart(i)) /\ UNCHANGED textvars
  \/ (\E i \in Idx, api \in ApiOutcomes : WorkerFinish(i, api)) /\ UNCHANGED textvars
  \/ (\E i \in Idx : Collect(i)) /\ UNCHANGED textvars
  \/ GenerateReturn /\ UNCHANGED textvars
  \/ GenerateExcept /\ UNCHANGED textvars
  \/ (\E k \in SectionKeys : EditSection(k)) /\ UNCHANGED textvars
  \/ (\E saved \in BOOLEAN : ExportDocx(saved)) /\ UNCHANGED textvars
  \/ (\E saved \in BOOLEAN, converted \in BOOLEAN : ExportPdf(saved, converted))
       /\ UNCHANGED textvars
  \/ (\E saved \in BOOLEAN, converted \in BOOLEAN : ExportBoth(saved, converted))
       /\ UNCHANGED textvars
  \/ BackToGenerate /\ UNCHANGED textvars

Spec == Init /\ [][Next]_vars

(***************************************************************************)
(* SpecText: the text functions applied to bounded content strings.        *)
(***************************************************************************)
MaxLines == 3

\* the lines content is made of
Lines ==
  { <<>>,
    <<"H", "i">>,
    <<"|", "A", "|", "B", "|">>,
    <<"|", "-", "|", "-", "|">>,
    <<"|", " ", "1", " ", "|", "2", "|">>,
    <<"|", "-", "|", "x", "|">>,
    <<"-", "|", "-">>,
    <<"a", "|", "b">>,
    <<"|", "1", "|", "2", "|", "3", "|">>,
    <<"|", "A", "|", "B", "|", " ">>,
    <<"#", "#", " ", "H">>,
    <<" ", "#", "#", " ", "H">>,
    <<"#", "#", "#", "H">>,
    <<"*", "b", "*">>,
    PLACEHOLDER }

\* '\n'.join(ls)
RECURSIVE JoinLines(_)
JoinLines(ls) ==
  IF Len(ls) = 0 THEN <<>>
  ELSE IF Len(ls) = 1 THEN ls[1]
  ELSE ls[1] \o <<NL>> \o JoinLines(Tail(ls))

Inputs ==
  UNION {{JoinLines(ls) : ls \in [1..n -> Lines]} : n \in 1..MaxLines}

InitText ==
  /\ WizInit
  /\ libreoffice = FALSE
  /\ content \in Inputs
  /\ tables = <<>>
  /\ blocks = <<>>
  /\ raised = FALSE
  /\ cleaned = <<>>
  /\ recleaned = <<>>
  /\ tstage = "input"

Extract ==
  /\ tstage = "input"
  /\ tables' = parse_markdown_table(content)
  /\ tstage' = "extracted"
  /\ UNCHANGED <<content, blocks, raised, cleaned, recleaned>>

Compose ==
  /\ tstage = "extracted"
  /\ LET r == add_formatted_content(content)
     IN /\ blocks' = r.blocks
        /\ raised' = r.raised
  /\ tstage' = "composed"
  /\ UNCHANGED <<content, tables, cleaned, recleaned>>

Normalize ==
  /\ tstage = "composed"
  /\ cleaned' = clean_markdown_text(content)
  /\ tstage' = "normalized"
  /\ UNCHANGED <<content, tables, blocks, raised, recleaned>>

\* clean_markdown_text applied to its own result
Renormalize ==
  /\ tstage = "normalized"
  /\ recleaned' = clean_markdown_text(cleaned)
  /\ tstage' = "renormalized"
  /\ UNCHANGED <<content, tables, blocks, raised, cleaned>>

NextText ==
  \/ Extract /\ UNCHANGED wizvars
  \/ Compose /\ UNCHANGED wizvars
  \/ Normalize /\ UNCHANGED wizvars
  \/ Renormalize /\ UNCHANGED wizvars

SpecText == InitText /\ [][NextText]_vars

(***************************************************************************)
(* Properties of the orchestrator and the wizard (checked under Spec).     *)
(***************************************************************************)
Outstanding == {i \in Idx : fstate[i] \in {"pending", "running"}}

\* C1: once generate_all_sections has returned, the result mapping (stored
\* at line 541) has exactly one key per section definition, whatever calls
\* succeeded or failed.
C1_Completeness ==
  /\ (pc = "collect" /\ AsCompletedExhausted) =>
        Keys(sections_content) = SectionKeys
  /\ last = Event("generate", TRUE) =>
        /\ Keys(generated_sections) = SectionKeys
        /\ Cardinality(Keys(generated_sections)) = Len(SECTIONS)

C1_Witness ==
  /\ last = Event("generate", TRUE)
  /\ step = 3
  /\ \E k \in SectionKeys : generated_sections[k].kind = ErrGenerating
  /\ \E k \in SectionKeys : generated_sections[k].kind = "text"

\* C2: in the result mapping the entry of a section whose call raised is the
\* error placeholder of that section, the entry of every other collected
\* section is the text its own call returned, and a raising call does not
\* end the batch: every section still gets its entry.
C2_Isolation ==
  /\ pc = "collect" =>
       \A i \in collected :
         /\ SECTIONS[i].key \in Keys(sections_content)
         /\ sections_content[SECTIONS[i].key] =
              Content(IF apicall[i] = "raise" THEN ErrGenerating ELSE "text",
                      SECTIONS[i].key, rfx_data)
  /\ last = Event("generate", TRUE) =>
       \A k \in SectionKeys :
         /\ k \in Keys(generated_sections)
         /\ generated_sections[k].key = k
         /\ generated_sections[k].from = rfx_data
         /\ generated_sections[k].kind \in {"text", ErrGenerating}
  /\ (pc = "collect" /\ AsCompletedExhausted) => collected = Idx

C2_Witness ==
  /\ pc = "collect"
  /\ collected = Idx
  /\ \E i \in Idx : apicall[i] = "raise"
  /\ \E i \in Idx : apicall[i] = "ok"

\* C3: the orchestrator hands control back (returning or raising) only when
\* no submitted request is queued or running, so the wizard is at step 3 or
\* has built a document only while no generation request is in flight.
C3_ExportAfterSettled ==
  /\ pc = "idle" => Outstanding = {}
  /\ step = 3 => pc = "idle"
  /\ doc # NoDoc => (step = 3 /\ pc = "idle" /\ Outstanding = {})

C3_Witness ==
  /\ step = 3
  /\ doc # NoDoc
  /\ \A i \in Idx : fstate[i] = "done"

\* C4 as stated: each key of the results mapping is written at most once
\* and only by the task that owns that key.
C4_WrittenByOwningTask ==
  \A k \in SectionKeys :
    /\ Len(writes[k]) <= 1
    /\ \A n \in 1..Len(writes[k]) :
         /\ writes[k][n].by = "task"
         /\ SECTIONS[writes[k][n].future].key = k

\* C4 amended: each key of the results mapping is written at most once, by
\* the calling flow in the collection loop and for the finished future that
\* owns the key; the tasks write nothing, and while a batch runs the
\* session state does not change.
C4_WrittenOnceByCollector ==
  /\ [](\A k \in SectionKeys :
          /\ Len(writes[k]) <= 1
          /\ \A n \in 1..Len(writes[k]) :
               /\ writes[k][n].by = "calling flow"
               /\ SECTIONS[writes[k][n].future].key = k
               /\ fstate[writes[k][n].future] = "done"
          /\ (k \in Keys(sections_content)) = (Len(writes[k]) = 1))
  /\ [][(pc # "idle" /\ pc' # "idle") =>
          /\ UNCHANGED <<step, rfx_data, generated_sections>>
          /\ (sections_content' # sections_content => collected' # collected)]_vars

C4_Witness ==
  /\ pc = "collect"
  /\ collected = Idx
  /\ \A k \in SectionKeys : Len(writes[k]) = 1

\* C5: at every moment at most MaxWorkers generation requests are in flight
\* although every section was submitted at once; a queued request starts
\* only when fewer than MaxWorkers are running.
C5_BoundedInFlight ==
  /\ [](Cardinality(InFlight) <= MaxWorkers)
  /\ [](last = Event("submit", TRUE) => \A i \in Idx : fstate[i] # "none")
  /\ [][\A i \in Idx :
          (fstate[i] = "pending" /\ fstate'[i] = "running") =>
             Cardinality(InFlight) < MaxWorkers]_vars

C5_Witness ==
  /\ Cardinality(InFlight) = MaxWorkers
  /\ Queued # {}
  /\ Outstanding = Idx

\* C6: Continue at step 1 with client name, project title, project type or
\* description empty leaves the step at 1 and the stored record unchanged;
\* with all four filled in the form is stored and the step becomes 2.
C6_MandatoryFields ==
  [][\A f \in Forms :
       ContinueToGeneration(f) =>
         IF f.client_name = "" \/ f.project_title = "" \/ f.project_type = ""
            \/ f.description = ""
           THEN step' = 1 /\ UNCHANGED <<rfx_data, generated_sections>>
           ELSE step' = 2 /\ rfx_data' = f]_vars

C6_Witness ==
  /\ last = Event("continue", FALSE)
  /\ step = 1
  /\ rfx_data # EmptyDict

\* the failing runs of the export handlers
ExportFails ==
  \/ ExportDocx(FALSE)
  \/ \E converted \in BOOLEAN : ExportPdf(FALSE, converted)
  \/ ExportPdf(TRUE, FALSE)
  \/ \E converted \in BOOLEAN : ExportBoth(FALSE, converted)
  \/ ExportBoth(TRUE, FALSE)

\* the steps of a generate handler that ends in its except clause
GenerateFails ==
  \/ GenerateClientRaise
  \/ GenerateSubmitRaise
  \/ pc = "unwind"

\* C7: a generation batch that raises, a failed DOCX export and a failed
\* PDF conversion leave the wizard step, the intake record and the
\* generated section content as they were.
C7_FailureKeepsState ==
  [][(ExportFails \/ GenerateFails) =>
       UNCHANGED <<step, rfx_data, generated_sections>>]_vars

C7_Witness ==
  /\ last = Event("export_pdf", FALSE)
  /\ step = 3
  /\ \E k \in SectionKeys : generated_sections[k].kind = "edited"
  /\ \E k \in SectionKeys : generated_sections[k].kind = ErrGenerating

\* the mapping with only the entries of the keys in K
Restrict(gs, K) == [k \in Keys(gs) \cap K |-> gs[k]]

\* the styled headings of a document body, in order
StyledHeadings(body) ==
  SelectSeq(body, LAMBDA e : e.type = "Heading1" /\ e.styled)

\* body holds, for each section definition in the fixed order, one styled
\* heading with the section's label, directly followed by the content of
\* the section's entry in gs, or by 'Content not generated' without entry
RenderedInOrder(body, gs) ==
  /\ Len(StyledHeadings(body)) = Len(SECTIONS)
  /\ \A i \in Idx : StyledHeadings(body)[i].text = SECTIONS[i].label
  /\ \A i \in Idx :
       \E n \in 1..(Len(body) - 1) :
         /\ body[n] = StyledHeadings(body)[i]
         /\ body[n + 1].type = "Content"
         /\ body[n + 1].of = IF SECTIONS[i].key \in Keys(gs)
                                THEN gs[SECTIONS[i].key] ELSE NotGenerated

\* C13: a rendered document holds exactly one styled heading per section
\* definition, in the fixed order of the definitions, each directly
\* followed by the content of that section, or by 'Content not generated'
\* when the mapping has no entry for the key; this holds whatever order the
\* sections completed in and for every part of the mapping.
C13_RendererOrder ==
  /\ doc # NoDoc => RenderedInOrder(doc.body, generated_sections)
  /\ doc # NoDoc =>
       \A K \in SUBSET SectionKeys :
         RenderedInOrder(
           create_docx_document(rfx_data, Restrict(generated_sections, K)).body,
           Restrict(generated_sections, K))

C13_Witness ==
  /\ doc # NoDoc
  /\ last = Event("export_docx", TRUE)
  /\ generated_sections[SECTIONS[1].key].kind = "edited"
  /\ generated_sections[SECTIONS[2].key].kind = ErrGenerating
  /\ generated_sections[SECTIONS[Len(SECTIONS)].key].kind = "text"

\* C16: the step is always 1, 2 or 3; step 3 is entered only from step 2
\* by a generation batch that has returned; and whenever the step is 3 the
\* generated section content has an entry for every section key, each
\* generated (and possibly edited afterwards) for that key from the intake
\* record that is stored now, also after Back navigation and a new step 1.
C16_WizardInvariant ==
  /\ [](step \in {1, 2, 3})
  /\ [](step = 3 =>
          /\ Keys(generated_sections) = SectionKeys
          /\ FormComplete(rfx_data)
          /\ \A k \in SectionKeys :
               /\ generated_sections[k].key = k
               /\ generated_sections[k].from = rfx_data
               /\ generated_sections[k].kind \in {"text", ErrGenerating, "edited"})
  /\ [][(step # 3 /\ step' = 3) =>
          /\ step = 2
          /\ pc = "collect" /\ AsCompletedExhausted /\ ShutdownComplete
          /\ generated_sections' = sections_content]_vars

C16_Witness ==
  /\ step = 3
  /\ rfx_data.client_name = "Globex"
  /\ last = Event("edit", TRUE)
  /\ \E k \in SectionKeys : generated_sections[k].kind = "edited"
  /\ \E k \in SectionKeys : generated_sections[k].kind = "text"
  /\ \A k \in SectionKeys : generated_sections[k].from.client_name = "Globex"

(***************************************************************************)
(* Properties of the text functions (checked under SpecText).              *)
(***************************************************************************)
Composed == tstage \in {"composed", "normalized", "renormalized"}

TextBlockTypes == {"Paragraph", "Heading2", "Heading3"}

\* the Table blocks and the Paragraph and Heading blocks of the output, in
\* order, as "T" and "P" (the spacing paragraph after a table left out)
EmittedLayout ==
  LET shown == SelectSeq(blocks, LAMBDA b : b.type # "Space")
  IN [n \in 1..Len(shown) |-> IF shown[n].type = "Table" THEN "T" ELSE "P"]

\* the layout of the source: for each blank-line-delimited chunk in order,
\* one "T" for each table extracted from it, or "P" for a chunk of text
RECURSIVE SourceLayout(_, _)
SourceLayout(chunks, j) ==
  IF j > Len(chunks) THEN <<>>
  ELSE LET n == Len(parse_markdown_table(chunks[j]))
       IN (IF n > 0 THEN [k \in 1..n |-> "T"]
           ELSE IF Strip(chunks[j]) # <<>> THEN <<"P">> ELSE <<>>)
          \o SourceLayout(chunks, j + 1)

\* C8: each table returned by parse_markdown_table is emitted as exactly one
\* Table block, in extraction order (the Nth Table block holds the Nth
\* extracted table), at the position its source text has among the
\* paragraphs; paragraph, table, paragraph composes to Paragraph, Table,
\* Paragraph.
C8_ComposerOrdering ==
  (Composed /\ ~Contains(content, PLACEHOLDER)) =>
    LET emitted == SelectSeq(blocks, LAMBDA b : b.type = "Table")
    IN /\ ~raised
       /\ Len(emitted) = Len(tables)
       /\ \A n \in 1..Len(emitted) :
            /\ Len(emitted[n].rows) = Len(tables[n])
            /\ \A r \in 1..Len(tables[n]) :
                 \A c \in 1..Len(tables[n][r]) :
                   /\ c <= Len(emitted[n].rows[r])
                   /\ emitted[n].rows[r][c] = clean_markdown_text(tables[n][r][c])
       /\ EmittedLayout = SourceLayout(Split(content, <<NL, NL>>), 1)

\* the lines of the content that belong to no table block of the extractor
RECURSIVE TextLines(_, _)
TextLines(lines, i) ==
  IF i > Len(lines) THEN {}
  ELSE IF LooksLikeTableRow(lines[i])
    THEN TextLines(lines, CollectRows(lines, i, <<>>).next)
    ELSE {i} \cup TextLines(lines, i + 1)

\* C9: every non-blank piece of text that is not part of an extracted table
\* appears (with its markdown markers removed) in some emitted Paragraph or
\* Heading block, also when it shares a paragraph with a table.
C9_TextPreserved ==
  (Composed /\ ~raised /\ ~Contains(content, PLACEHOLDER)) =>
    LET lines == Split(content, <<NL>>)
    IN \A i \in TextLines(lines, 1) :
         LET shown == FormatParagraph(clean_markdown_text(lines[i])).text
         IN shown # <<>> =>
              \E n \in 1..Len(blocks) :
                /\ blocks[n].type \in TextBlockTypes
                /\ Contains(blocks[n].text, shown)

\* a row that consists only of pipes, dashes, colons and whitespace
OnlySeparatorChars(row) ==
  \A m \in 1..Len(row) : row[m] \in {"|", "-", ":", " ", NL}

\* the rows of the table block at line i that are not separator rows, as
\* their trimmed non-empty cells
RECURSIVE NonSeparatorRows(_, _, _)
NonSeparatorRows(lines, i, kept) ==
  IF i <= Len(lines) /\ Contains(lines[i], <<"|">>)
    THEN NonSeparatorRows(lines, i + 1,
           IF OnlySeparatorChars(Strip(lines[i]))
             THEN kept ELSE Append(kept, RowCells(Strip(lines[i]))))
    ELSE kept

\* the tables of the content when exactly the separator rows are discarded
RECURSIVE TablesWithoutSeparators(_, _)
TablesWithoutSeparators(lines, i) ==
  IF i > Len(lines) THEN <<>>
  ELSE IF LooksLikeTableRow(lines[i])
    THEN LET kept == NonSeparatorRows(lines, i, <<>>)
         IN (IF kept # <<>> THEN <<kept>> ELSE <<>>)
            \o TablesWithoutSeparators(lines, CollectRows(lines, i, <<>>).next)
    ELSE TablesWithoutSeparators(lines, i + 1)

\* C10: within a table block a row is discarded if and only if it consists
\* only of pipes, dashes, colons and whitespace; every other row is kept, in
\* order, as its trimmed non-empty cells, and a table is emitted only if a
\* row is kept.
C10_SeparatorRows ==
  tstage # "input" =>
    tables = TablesWithoutSeparators(Split(content, <<NL>>), 1)

\* C11: clean_markdown_text is idempotent: cleaning the cleaned text gives
\* the cleaned text again, for every content string.
C11_NormalizerIdempotent ==
  tstage = "renormalized" => recleaned = cleaned

\* the paragraph candidates of the content that are not placeholders: the
\* non-blank pieces between blank lines of the text in which the tables
\* were replaced, without those that hold the placeholder token
Candidates ==
  SelectSeq(Split(RemoveTables(content, Len(tables)), <<NL, NL>>),
            LAMBDA c : Strip(c) # <<>> /\ ~Contains(c, PLACEHOLDER))

\* the block type the leading heading markers of a candidate call for
HeadingLevel(c) ==
  IF StartsWith(Strip(c), <<"#", "#", "#">>) THEN "Heading3"
  ELSE IF StartsWith(Strip(c), <<"#", "#">>) THEN "Heading2"
  ELSE "Paragraph"

\* C12: every paragraph candidate that is not a placeholder is emitted as
\* one block: Heading3 when it has three leading hashes, Heading2 when it
\* has two, Paragraph otherwise, and the emitted text does not begin with a
\* heading marker.
C12_HeadingClassification ==
  (Composed /\ ~raised) =>
    LET shown == SelectSeq(blocks, LAMBDA b : b.type \in TextBlockTypes)
    IN /\ Len(shown) = Len(Candidates)
       /\ \A n \in 1..Len(shown) :
            /\ shown[n].type = HeadingLevel(Candidates[n])
            /\ ~StartsWith(shown[n].text, <<"#">>)

\* the rows of the run of lines with at least two pipes that starts at line
\* i, each row handled as lines 71-75 handle it
RECURSIVE CandidateRun(_, _, _)
CandidateRun(lines, i, table_rows) ==
  IF i <= Len(lines) /\ LooksLikeTableRow(lines[i])
    THEN LET row == Strip(lines[i])
             cells == RowCells(row)
         IN CandidateRun(lines, i + 1,
              IF row # <<>> /\ ~SeparatorRow(row) /\ cells # <<>>
                THEN Append(table_rows, cells) ELSE table_rows)
    ELSE [rows |-> table_rows, next |-> i]

\* the tables of the content when a table block is a maximal run of
\* consecutive lines with at least two pipes
RECURSIVE TablesOfCandidateRuns(_, _, _)
TablesOfCandidateRuns(lines, i, found) ==
  IF i > Len(lines) THEN found
  ELSE IF LooksLikeTableRow(lines[i])
    THEN LET r == CandidateRun(lines, i, <<>>)
         IN TablesOfCandidateRuns(lines, r.next,
              IF r.rows # <<>> THEN Append(found, r.rows) ELSE found)
    ELSE TablesOfCandidateRuns(lines, i + 1, found)

\* C14: a line belongs to a table block only if it has at least two pipes,
\* and a block is a maximal run of consecutive such lines: a line with
\* fewer than two pipes directly after a table row ends the block and adds
\* no row to the table.
C14_BlockMembership ==
  tstage # "input" =>
    tables = TablesOfCandidateRuns(Split(content, <<NL>>), 1, <<>>)

\* the paragraph candidates that hold the placeholder token
PlaceholderCandidates ==
  SelectSeq(Split(RemoveTables(content, Len(tables)), <<NL, NL>>),
            LAMBDA c : Strip(c) # <<>> /\ Contains(c, PLACEHOLDER))

\* how many placeholder candidates there are beyond the extracted tables
ExtraPlaceholders ==
  IF Len(PlaceholderCandidates) > Len(tables)
    THEN Len(PlaceholderCandidates) - Len(tables) ELSE 0

\* the emitted Paragraph blocks whose text holds the placeholder token
LiteralPlaceholders ==
  SelectSeq(blocks, LAMBDA b : b.type = "Paragraph" /\ Contains(b.text, PLACEHOLDER))

\* C15: when the text holds more placeholder candidates than tables were
\* extracted, every candidate beyond the tables is emitted as a Paragraph
\* block with the placeholder as literal text, and the composition does not
\* fail because of it (it raises only for a table row longer than the
\* first row).
C15_ExtraPlaceholderLiteral ==
  (Composed /\ ExtraPlaceholders > 0) =>
    /\ raised => \E t \in 1..Len(tables) : FirstLongRow(tables[t]) # 0
    /\ ~raised => Len(LiteralPlaceholders) = ExtraPlaceholders

====
